---- MODULE Spec2Model ----
(***************************************************************************)
(* NodeItDocker (src/node-it-docker.js): the lifecycle manager of an       *)
(* integration-test database container.  The container engine and the      *)
(* database are the environment; every await of the source is one step.    *)
(***************************************************************************)
EXTENDS Integers, Sequences, FiniteSets, TLC

\* ------------------------------------------------------------------ bounds
\* Facade operations a test harness invokes on one manager, one after another.
MaxCalls == 2

\* --------------------------------------------------------- program constants
LOCALHOST == "127.0.0.1"
MYSQL_DEFAULT_PORT == "3306"
itContainerName == "node-it-container-qwerty12345"
\* The option's default is the number 3806; ports are kept as strings here so
\* that the two port values of the connection parameters can be compared.
externalPort == "3806"
dbUsername == "ituser"
dbPassword == "ituser"
dbName == "nursebuddy"
\* for (let i = 0; i < 10; i++)
MaxAttempts == 10
\* let waitPeriod = 500
InitialWait == 500

\* The manager instances a test process may build (Init says which exist).
Managers == {1, 2}

\* The engine calls of the source, by the method the source calls.
EngineCalls ==
  {"listNetworks", "createNetwork", "inspect", "createContainer", "start",
   "connect", "restart", "stop", "remove", "disconnect", "removeNetwork"}

\* What one database attempt (connect + sentinel query) can come to.
DbOutcomes == {"ok", "connectError", "queryError", "invalidLength"}

VARIABLES
  cfg,          \* the configuration and the environment's disposition (fixed)
  networks,     \* number of engine networks named containerNetworkName
  container,    \* the container named itContainerName: absent/stopped/running
  extAttached,  \* the external container is connected to the network
  mgr           \* per manager: position, locals, observations, history

vars == <<cfg, networks, container, extAttached, mgr>>

\* ------------------------------------------------------------ configuration
\* The environment variable left out: currentContainerId || null.
CurrentContainerIdOptionOnly(env, opt) ==
  IF opt # "" THEN opt ELSE "null"

\* currentContainerId = process.env.IT_CONTAINER || currentContainerId || null
CurrentContainerId(env, opt) ==
  IF env # "" THEN env ELSE IF opt # "" THEN opt ELSE "null"

currentContainerId == CurrentContainerId(cfg.envItContainer, cfg.optCurrentContainerId)

\* JavaScript truthiness of currentContainerId (null is falsy).
HasCurrentContainer == currentContainerId # "null"

\* {host, port, user, password, database} as start, restart and
\* getDbConnectionParameters build it.
ConnectionParameters ==
  [host |-> IF HasCurrentContainer THEN itContainerName ELSE LOCALHOST,
   port |-> IF HasCurrentContainer THEN MYSQL_DEFAULT_PORT ELSE externalPort,
   user |-> dbUsername,
   password |-> dbPassword,
   database |-> dbName]

\* The module is CommonJS: at module level `this` is module.exports, and the
\* arrow functions NodeItDocker, start, stop and restart take `this` from
\* there.  The only property the module puts on it is NodeItDocker.
ModuleExports == {"NodeItDocker"}

\* this.stop / this.start as the arrow functions see them.
ThisProperty(p) == IF p \in ModuleExports THEN p ELSE "undefined"

\* Math.round(w / 2) for a non-negative integer w (a half rounds up).
RoundHalf(w) == (w + 1) \div 2

\* waitPeriod += Math.round(waitPeriod / 2)
NextWait(w) == w + RoundHalf(w)

\* ------------------------------------------------------------------- engine
\* The environment makes the engine call cfg.failCall fail whenever issued.
Faulty(call) == cfg.failCall = call

\* docker.listNetworks() rejects.
ListFails == Faulty("listNetworks")
\* createNetwork without CheckDuplicate: the engine accepts a second network
\* of the same name.
CreateNetworkFailsUnchecked == Faulty("createNetwork")

\* createNetwork with CheckDuplicate: a name conflict is rejected.
CreateNetworkFails == Faulty("createNetwork") \/ networks > 0
\* container.inspect(): no such container.
InspectFails == Faulty("inspect") \/ container = "absent"
\* createContainer: the name is taken.
CreateContainerFails == Faulty("createContainer") \/ container # "absent"
\* container.start(): no such container, or 304 already started when the
\* engine client reports "not modified" as an error.
StartFails ==
  \/ Faulty("start")
  \/ container = "absent"
  \/ (container = "running" /\ cfg.notModifiedIsError)
\* network.connect: no such network.
ConnectFails == Faulty("connect") \/ networks = 0
\* container.restart(): no such container.
RestartFails == Faulty("restart") \/ container = "absent"
\* container.stop(): no such container, or 304 already stopped.
StopFails ==
  \/ Faulty("stop")
  \/ container = "absent"
  \/ (container = "stopped" /\ cfg.notModifiedIsError)
\* container.remove({force: true}): no such container.
RemoveFails == Faulty("remove") \/ container = "absent"
\* network.disconnect({Force: true}): no such network.
DisconnectFails == Faulty("disconnect") \/ networks = 0
\* network.remove(): no such network.
RemoveNetworkFails == Faulty("removeNetwork") \/ networks = 0

\* ------------------------------------------------------------------ manager
NoResult == [kind |-> "none", params |-> ConnectionParameters]

IdleManager ==
  [pc |-> "idle",
   op |-> "none",            \* the facade operation the harness invoked
   network |-> FALSE,        \* start: `network` holds a handle
   verifyCaller |-> "none",  \* verifyDatabaseConnection: called from
   stopFn |-> "undefined",   \* verifyDatabaseConnection: its stopFn argument
   stopCaller |-> "none",    \* stop: invoked by the harness or as stopFn
   i |-> 0,                  \* verifyDatabaseConnection: loop counter
   waitPeriod |-> InitialWait,
   lastError |-> "none",
   result |-> NoResult,      \* what the operation settles with
   \* observations of the operation in progress
   calls |-> <<>>,           \* engine calls issued, in order
   attempts |-> 0,           \* database attempts made
   okAt |-> 0,               \* the attempt whose connect resolved (0: none)
   waits |-> <<>>,           \* sleeps taken, in order (ms)
   stops |-> 0,              \* invocations of the manager's stop
   pre |-> [container |-> "absent", networks |-> 0],
   preExtAttached |-> FALSE, \* extAttached when the operation was invoked
   openConns |-> 0,          \* database connections established and not closed
   history |-> <<>>]         \* the operations completed so far

\* What earlier runs may have left in the engine when the manager is built.
InitialEngine ==
  {<<0, "absent">>, <<1, "absent">>, <<1, "stopped">>, <<1, "running">>}

Init ==
  /\ cfg \in [verifyDbConnection : BOOLEAN,
              envItContainer : {"", "env-container"},
              optCurrentContainerId : {"", "opt-container"},
              failCall : EngineCalls \cup {"none"},
              notModifiedIsError : BOOLEAN,
              managers : {{1}}]
  /\ \E e \in InitialEngine : networks = e[1] /\ container = e[2]
  /\ extAttached = FALSE
  /\ mgr = [m \in cfg.managers |-> IdleManager]

\* One step of manager m: its record becomes r.
Upd(m, r) == mgr' = [mgr EXCEPT ![m] = r]

Issue(s, call) == [s EXCEPT !.calls = Append(@, call)]

\* The operation settles: resolve with a value or reject.
Settle(s, kind) == [s EXCEPT !.pc = "done", !.result = [NoResult EXCEPT !.kind = kind]]

\* if (await verifyDatabaseConnection(...)) return {...}; return null;
AfterVerify(s, verified) ==
  Settle(s, IF verified = "true" THEN "params" ELSE "null")

\* An exception leaves start(): start is an async function without a handler of
\* its own, and restart calls it only from its catch block, so the operation
\* rejects either way.
StartThrows(s) == Settle(s, "threw")

\* verifyDatabaseConnection(verifyDbConnection, ..., this.stop) is entered:
\* without verifyDbConnection the function falls off its end (undefined).
EnterVerify(s, caller) ==
  IF cfg.verifyDbConnection
    THEN [s EXCEPT !.pc = "v_connect", !.verifyCaller = caller,
                   !.stopFn = ThisProperty("stop"),
                   !.i = 0, !.waitPeriod = InitialWait, !.lastError = "none"]
    ELSE AfterVerify([s EXCEPT !.verifyCaller = caller], "undefined")

\* ------------------------------------------------------------------ harness
Begin(s, op, pc) ==
  [IdleManager EXCEPT !.pc = pc, !.op = op, !.history = s.history,
                      !.stopCaller = IF op = "stop" THEN "harness" ELSE "none",
                      !.stops = IF op = "stop" THEN 1 ELSE 0,
                      !.pre = [container |-> container, networks |-> networks],
                      !.preExtAttached = extAttached]

CanCall(m) ==
  /\ m \in cfg.managers
  /\ mgr[m].pc = "idle"
  /\ Len(mgr[m].history) < MaxCalls

\* manager.start()
CallStart(m) ==
  /\ CanCall(m)
  /\ Upd(m, Begin(mgr[m], "start", "getOrCreateNetwork"))
  /\ UNCHANGED <<cfg, networks, container, extAttached>>

\* manager.stop()
CallStop(m) ==
  /\ CanCall(m)
  /\ Upd(m, Begin(mgr[m], "stop", "s_stop"))
  /\ UNCHANGED <<cfg, networks, container, extAttached>>

\* manager.restart()
CallRestart(m) ==
  /\ CanCall(m)
  /\ Upd(m, Begin(mgr[m], "restart", "r_restart"))
  /\ UNCHANGED <<cfg, networks, container, extAttached>>

\* manager.getDbConnectionParameters(): an async function without an await;
\* it returns the object built from the configuration.
CallGetDbConnectionParameters(m) ==
  /\ CanCall(m)
  /\ Upd(m, Settle(Begin(mgr[m], "getDbConnectionParameters", "idle"), "params"))
  /\ UNCHANGED <<cfg, networks, container, extAttached>>

\* The operation's promise settles; the harness sees the outcome and the engine.
Return(m) ==
  LET s == mgr[m] IN
  /\ m \in cfg.managers
  /\ s.pc = "done"
  /\ Upd(m, [IdleManager EXCEPT
               !.history = Append(s.history,
                 [op |-> s.op, result |-> s.result, pre |-> s.pre,
                  container |-> container, networks |-> networks,
                  extAttached |-> extAttached])])
  /\ UNCHANGED <<cfg, networks, container, extAttached>>

\* ------------------------------------------------------------------- start
\* getOrCreateNetwork: existingNetworks.find(n => n.Name === name), with a
\* failure to list caught and logged.
NetworkFound == ~ListFails /\ networks > 0

\* A start that obtains the network handle only when it creates the network:
\* a network that was found is not kept.
GetOrCreateNetworkNoHandle(m) ==
  LET s == Issue(mgr[m], "listNetworks") IN
  /\ m \in cfg.managers
  /\ mgr[m].pc = "getOrCreateNetwork"
  /\ Upd(m, IF NetworkFound
              THEN [s EXCEPT !.pc = "inspect"]
              ELSE [s EXCEPT !.pc = "createNetwork"])
  /\ UNCHANGED <<cfg, networks, container, extAttached>>

\* getOrCreateNetwork, first await: docker.listNetworks().
GetOrCreateNetwork(m) ==
  LET s == Issue(mgr[m], "listNetworks") IN
  /\ m \in cfg.managers
  /\ mgr[m].pc = "getOrCreateNetwork"
  /\ Upd(m, IF NetworkFound
              THEN [s EXCEPT !.network = TRUE, !.pc = "inspect"]
              ELSE [s EXCEPT !.pc = "createNetwork"])
  /\ UNCHANGED <<cfg, networks, container, extAttached>>

\* A getOrCreateNetwork that catches the failure to create as it catches the
\* failure to list, and goes on with a handle by name.
CreateNetworkSwallows(m) ==
  LET s == Issue(mgr[m], "createNetwork") IN
  /\ m \in cfg.managers
  /\ mgr[m].pc = "createNetwork"
  /\ Upd(m, [s EXCEPT !.network = TRUE, !.pc = "inspect"])
  /\ networks' = IF CreateNetworkFails THEN networks ELSE networks + 1
  /\ UNCHANGED <<cfg, container, extAttached>>

\* getOrCreateNetwork, if (!network): docker.createNetwork({CheckDuplicate}).
CreateNetwork(m) ==
  LET s == Issue(mgr[m], "createNetwork") IN
  /\ m \in cfg.managers
  /\ mgr[m].pc = "createNetwork"
  /\ IF CreateNetworkFails
       THEN /\ Upd(m, StartThrows(s))
            /\ UNCHANGED networks
       ELSE /\ Upd(m, [s EXCEPT !.network = TRUE, !.pc = "inspect"])
            /\ networks' = networks + 1
  /\ UNCHANGED <<cfg, container, extAttached>>

\* A start that creates the container whatever the lookup says.
InspectContainerAlwaysCreates(m) ==
  LET s == Issue(mgr[m], "inspect") IN
  /\ m \in cfg.managers
  /\ mgr[m].pc = "inspect"
  /\ Upd(m, [s EXCEPT !.pc = "createContainer"])
  /\ UNCHANGED <<cfg, networks, container, extAttached>>

\* start: try { container = docker.getContainer(name); await container.inspect() }
InspectContainer(m) ==
  LET s == Issue(mgr[m], "inspect") IN
  /\ m \in cfg.managers
  /\ mgr[m].pc = "inspect"
  /\ Upd(m, [s EXCEPT !.pc = IF InspectFails THEN "createContainer" ELSE "start"])
  /\ UNCHANGED <<cfg, networks, container, extAttached>>

\* A start that, when the name is taken, goes on with the container that
\* holds the name.
CreateContainerAdopts(m) ==
  LET s == Issue(mgr[m], "createContainer") IN
  /\ m \in cfg.managers
  /\ mgr[m].pc = "createContainer"
  /\ Upd(m, [s EXCEPT !.pc = "start"])
  /\ container' = IF container = "absent" THEN "stopped" ELSE container
  /\ UNCHANGED <<cfg, networks, extAttached>>

\* start: catch { container = await docker.createContainer({...}) }
CreateContainer(m) ==
  LET s == Issue(mgr[m], "createContainer") IN
  /\ m \in cfg.managers
  /\ mgr[m].pc = "createContainer"
  /\ IF CreateContainerFails
       THEN /\ Upd(m, StartThrows(s))
            /\ UNCHANGED container
       ELSE /\ Upd(m, [s EXCEPT !.pc = "start"])
            /\ container' = "stopped"
  /\ UNCHANGED <<cfg, networks, extAttached>>

\* start: await container.start()
StartContainer(m) ==
  LET s == Issue(mgr[m], "start") IN
  /\ m \in cfg.managers
  /\ mgr[m].pc = "start"
  /\ IF StartFails
       THEN /\ Upd(m, StartThrows(s))
            /\ UNCHANGED container
       ELSE /\ Upd(m, [s EXCEPT !.pc = "connect"])
            /\ container' = "running"
  /\ UNCHANGED <<cfg, networks, extAttached>>

\* start: await connectRunningContainerToNetwork(currentContainerId, network),
\* then verifyDatabaseConnection is entered.
ConnectRunningContainerToNetwork(m) ==
  LET s == mgr[m] IN
  /\ m \in cfg.managers
  /\ s.pc = "connect"
  /\ IF HasCurrentContainer
       THEN IF ConnectFails
              THEN /\ Upd(m, StartThrows(Issue(s, "connect")))
                   /\ UNCHANGED extAttached
              ELSE /\ Upd(m, EnterVerify(Issue(s, "connect"), "start"))
                   /\ extAttached' = TRUE
       ELSE /\ Upd(m, EnterVerify(s, "start"))
            /\ UNCHANGED extAttached
  /\ UNCHANGED <<cfg, networks, container>>

\* ------------------------------------------------------------------ restart
\* restart: catch (err) { return this.start(); }
RestartCatch(s) ==
  IF ThisProperty("start") = "undefined"
    THEN Settle(s, "threw")
    ELSE [s EXCEPT !.pc = "getOrCreateNetwork", !.network = FALSE]

\* restart: await container.restart(), then verifyDatabaseConnection is entered.
RestartContainer(m) ==
  LET s == Issue(mgr[m], "restart") IN
  /\ m \in cfg.managers
  /\ mgr[m].pc = "r_restart"
  /\ IF RestartFails
       THEN /\ Upd(m, RestartCatch(s))
            /\ UNCHANGED container
       ELSE /\ Upd(m, EnterVerify(s, "restart"))
            /\ container' = "running"
  /\ UNCHANGED <<cfg, networks, extAttached>>

\* --------------------------------------------------- verifyDatabaseConnection
\* An exception leaves verifyDatabaseConnection: restart has it in its try
\* block, start does not.
VerifyThrows(s) ==
  IF s.verifyCaller = "restart" THEN RestartCatch(s) ELSE StartThrows(s)

\* connect(...) settles: resolve(true) only after a query with exactly one
\* row, reject otherwise.
ConnectResolves(outcome) == outcome = "ok"

\* connection.connect(err => { if (err) return reject(err); ...: the query is
\* sent only on a connection that was established.
ConnectionEstablished(outcome) == outcome # "connectError"

\* A query callback that destroys the connection on the success path only.
ConnectionDestroyedOnSuccessOnly(outcome) == outcome = "ok"

\* connection.destroy() is the first statement of the query callback, whatever
\* the query came to; the connect-error path has no destroy (the handshake
\* error is fatal to the connection object, nothing was established).
ConnectionDestroyed(outcome) == outcome \in {"ok", "queryError", "invalidLength"}

\* Connections an attempt leaves open when its promise settles.
LeftOpen(outcome) ==
  IF ConnectionEstablished(outcome) /\ ~ConnectionDestroyed(outcome) THEN 1 ELSE 0

\* The manager's record after one call of connect(...) that came to outcome.
Attempted(s, outcome) ==
  [s EXCEPT !.attempts = @ + 1, !.openConns = @ + LeftOpen(outcome)]

\* Connect without the `return true`: a resolved connect falls through to the
\* sleep like a rejected one.
ConnectNoReturn(m) ==
  /\ m \in cfg.managers
  /\ mgr[m].pc = "v_connect"
  /\ \E outcome \in DbOutcomes :
       LET s == Attempted(mgr[m], outcome) IN
       Upd(m, IF ConnectResolves(outcome)
                THEN [s EXCEPT !.okAt = s.attempts, !.pc = "v_sleep"]
                ELSE [s EXCEPT !.lastError = outcome, !.pc = "v_sleep"])
  /\ UNCHANGED <<cfg, networks, container, extAttached>>

\* for (...) { try { if (await connect(...)) return true } catch (err) { lastError = err } ...
Connect(m) ==
  /\ m \in cfg.managers
  /\ mgr[m].pc = "v_connect"
  /\ \E outcome \in DbOutcomes :
       LET s == Attempted(mgr[m], outcome) IN
       Upd(m, IF ConnectResolves(outcome)
                THEN AfterVerify([s EXCEPT !.okAt = s.attempts], "true")
                ELSE [s EXCEPT !.lastError = outcome, !.pc = "v_sleep"])
  /\ UNCHANGED <<cfg, networks, container, extAttached>>

\* The loop bound off by one: i <= 10.
LoopContinuesInclusive(i) == i <= MaxAttempts

\* The loop goes on while i < 10.
LoopContinues(i) == i < MaxAttempts

\* ... await sleep(waitPeriod); waitPeriod += Math.round(waitPeriod / 2); } i++
Sleep(m) ==
  LET s == mgr[m] IN
  /\ m \in cfg.managers
  /\ s.pc = "v_sleep"
  /\ Upd(m, [s EXCEPT !.waits = Append(@, s.waitPeriod),
                      !.waitPeriod = NextWait(@),
                      !.i = @ + 1,
                      !.pc = IF LoopContinues(s.i + 1) THEN "v_connect" ELSE "v_stopFn"])
  /\ UNCHANGED <<cfg, networks, container, extAttached>>

\* log.warn(...); await stopFn(); return false;  Calling undefined is a TypeError.
StopFn(m) ==
  LET s == mgr[m] IN
  /\ m \in cfg.managers
  /\ s.pc = "v_stopFn"
  /\ Upd(m, IF s.stopFn = "undefined"
              THEN VerifyThrows(s)
              ELSE [s EXCEPT !.pc = "s_stop", !.stopCaller = "verify",
                             !.stops = @ + 1])
  /\ UNCHANGED <<cfg, networks, container, extAttached>>

\* --------------------------------------------------------------------- stop
\* stop returns: to the harness (resolved with undefined) or, as stopFn, into
\* verifyDatabaseConnection, which then returns false.
StopReturns(s) ==
  IF s.stopCaller = "verify" THEN AfterVerify(s, "false") ELSE Settle(s, "undefined")

\* stop without its try/catch: the engine's error leaves stop.
StopCatchRethrows(s) == Settle(s, "threw")

\* A catch block that goes on to remove the network when the container could
\* not be stopped.
StopCatchRemovesNetwork(s) ==
  IF s.calls = <<"stop">> THEN [s EXCEPT !.pc = "s_removeNetwork"] ELSE StopReturns(s)

\* stop: catch (err) { log.warn(...) }
StopCatch(s) == StopReturns(s)

\* stop: await container.stop()
StopContainer(m) ==
  LET s == Issue(mgr[m], "stop") IN
  /\ m \in cfg.managers
  /\ mgr[m].pc = "s_stop"
  /\ IF StopFails
       THEN /\ Upd(m, StopCatch(s))
            /\ UNCHANGED container
       ELSE /\ Upd(m, [s EXCEPT !.pc = "s_remove"])
            /\ container' = "stopped"
  /\ UNCHANGED <<cfg, networks, extAttached>>

\* stop: await container.remove({force: true}); if (currentContainerId) ...
RemoveContainer(m) ==
  LET s == Issue(mgr[m], "remove") IN
  /\ m \in cfg.managers
  /\ mgr[m].pc = "s_remove"
  /\ IF RemoveFails
       THEN /\ Upd(m, StopCatch(s))
            /\ UNCHANGED container
       ELSE /\ Upd(m, [s EXCEPT !.pc = IF HasCurrentContainer
                                         THEN "s_disconnect" ELSE "s_removeNetwork"])
            /\ container' = "absent"
  /\ UNCHANGED <<cfg, networks, extAttached>>

\* stop: await disconnectRunningContainerFromNetwork(currentContainerId, network)
DisconnectRunningContainerFromNetwork(m) ==
  LET s == Issue(mgr[m], "disconnect") IN
  /\ m \in cfg.managers
  /\ mgr[m].pc = "s_disconnect"
  /\ IF DisconnectFails
       THEN /\ Upd(m, StopCatch(s))
            /\ UNCHANGED extAttached
       ELSE /\ Upd(m, [s EXCEPT !.pc = "s_removeNetwork"])
            /\ extAttached' = FALSE
  /\ UNCHANGED <<cfg, networks, container>>

\* stop: await network.remove({force: true})
RemoveNetwork(m) ==
  LET s == Issue(mgr[m], "removeNetwork") IN
  /\ m \in cfg.managers
  /\ mgr[m].pc = "s_removeNetwork"
  /\ IF RemoveNetworkFails
       THEN /\ Upd(m, StopCatch(s))
            /\ UNCHANGED networks
       ELSE /\ Upd(m, StopReturns(s))
            /\ networks' = networks - 1
  /\ UNCHANGED <<cfg, container, extAttached>>

\* ------------------------------------------------------------ specification
Next ==
  \E m \in Managers :
    \/ CallStart(m)
    \/ CallStop(m)
    \/ CallRestart(m)
    \/ CallGetDbConnectionParameters(m)
    \/ Return(m)
    \/ GetOrCreateNetwork(m)
    \/ CreateNetwork(m)
    \/ InspectContainer(m)
    \/ CreateContainer(m)
    \/ StartContainer(m)
    \/ ConnectRunningContainerToNetwork(m)
    \/ RestartContainer(m)
    \/ Connect(m)
    \/ Sleep(m)
    \/ StopFn(m)
    \/ StopContainer(m)
    \/ RemoveContainer(m)
    \/ DisconnectRunningContainerFromNetwork(m)
    \/ RemoveNetwork(m)

Spec == Init /\ [][Next]_vars

\* ------------------------------------------------- two managers, one engine
\* Two managers built with the same options in one test process, on an engine
\* that answers every call; verification is switched off.
RaceInit ==
  /\ cfg \in [verifyDbConnection : {FALSE},
              envItContainer : {"", "env-container"},
              optCurrentContainerId : {""},
              failCall : {"none"},
              notModifiedIsError : BOOLEAN,
              managers : {Managers}]
  /\ \E e \in InitialEngine : networks = e[1] /\ container = e[2]
  /\ extAttached = FALSE
  /\ mgr = [m \in cfg.managers |-> IdleManager]

\* Each manager's start() is invoked once; the awaits of the two interleave.
RaceStart(m) ==
  /\ mgr[m].history = <<>>
  /\ CallStart(m)

RaceNext ==
  \E m \in Managers :
    \/ RaceStart(m)
    \/ Return(m)
    \/ GetOrCreateNetwork(m)
    \/ CreateNetwork(m)
    \/ InspectContainer(m)
    \/ CreateContainer(m)
    \/ StartContainer(m)
    \/ ConnectRunningContainerToNetwork(m)

SpecRace == RaceInit /\ [][RaceNext]_vars

\* ------------------------------------------------------------------ progress
\* A step of manager m that is the return of an await (engine call, database
\* call or sleep) or the settling of the operation's promise.
Progress(m) ==
  \/ Return(m)
  \/ GetOrCreateNetwork(m)
  \/ CreateNetwork(m)
  \/ InspectContainer(m)
  \/ CreateContainer(m)
  \/ StartContainer(m)
  \/ ConnectRunningContainerToNetwork(m)
  \/ RestartContainer(m)
  \/ Connect(m)
  \/ Sleep(m)
  \/ StopFn(m)
  \/ StopContainer(m)
  \/ RemoveContainer(m)
  \/ DisconnectRunningContainerFromNetwork(m)
  \/ RemoveNetwork(m)

\* One invocation of start(), restart() or stop() on a manager just built.
Invoke(m) ==
  /\ m \in cfg.managers
  /\ mgr[m].history = <<>>
  /\ (CallStart(m) \/ CallRestart(m) \/ CallStop(m))

LiveNext == \E m \in Managers : Invoke(m) \/ Progress(m)

\* Every engine call, database call and sleep that is pending returns.
SpecLive == Init /\ [][LiveNext]_vars /\ \A m \in Managers : WF_vars(Progress(m))

\* ------------------------------------------------------------------- claims
\* An operation of manager m has just settled.
Settled(m, op) == mgr[m].pc = "done" /\ mgr[m].op = op

\* verifyDatabaseConnection ran with verification enabled and every one of
\* its attempts failed.
Exhausted(m) ==
  /\ cfg.verifyDbConnection
  /\ mgr[m].verifyCaller # "none"
  /\ mgr[m].attempts = MaxAttempts
  /\ mgr[m].okAt = 0

\* Number of occurrences of call c in the sequence q.
Count(q, c) == Cardinality({j \in 1..Len(q) : q[j] = c})

\* C1: with verification enabled and every engine call succeeding, a database
\* that fails every attempt makes start() resolve to null, without rejecting,
\* after exactly 10 connection attempts.
C1_StartResolvesNullOnExhaustion ==
  \A m \in DOMAIN mgr :
    (Settled(m, "start") /\ cfg.failCall = "none" /\ Exhausted(m))
      => (mgr[m].result.kind = "null" /\ mgr[m].attempts = 10)

\* C2: when verification is exhausted during start() or restart(), the
\* manager's stop is invoked exactly once before the failure result, and
\* afterwards neither the container nor the network exists in the engine.
C2_ExhaustionTearsDown ==
  \A m \in DOMAIN mgr :
    (mgr[m].pc = "done" /\ mgr[m].op \in {"start", "restart"}
       /\ cfg.failCall = "none" /\ Exhausted(m))
      => (mgr[m].stops = 1 /\ container = "absent" /\ networks = 0)

\* C3: once attempt k is the first whose connect resolves, verification is
\* over at once: no further attempt, no sleep after attempt k (k - 1 sleeps in
\* all, none for k = 1), the stop callback is not invoked, and the operation
\* returns the connection parameters.
C3_SuccessReturnsImmediately ==
  \A m \in DOMAIN mgr :
    mgr[m].okAt > 0
      => /\ mgr[m].pc = "done"
         /\ mgr[m].attempts = mgr[m].okAt
         /\ Len(mgr[m].waits) = mgr[m].okAt - 1
         /\ mgr[m].stops = 0
         /\ mgr[m].result.kind = "params"
         /\ mgr[m].result.params = ConnectionParameters

\* C3 witness: start() whose third attempt is the first to succeed.
C3_Witness ==
  \E m \in DOMAIN mgr :
    /\ Settled(m, "start")
    /\ mgr[m].okAt = 3
    /\ mgr[m].waits = <<500, 750>>
    /\ mgr[m].result.kind = "params"

\* C4: a verifier whose every attempt fails waits exactly 9 times, 500, 750,
\* 1125, 1688, ..., each wait the previous one plus round(previous / 2), with
\* no wait after the 10th attempt.
C4_NineWaits ==
  \A m \in DOMAIN mgr :
    (mgr[m].pc = "done" /\ Exhausted(m))
      => /\ Len(mgr[m].waits) = 9
         /\ mgr[m].waits[1] = 500
         /\ \A j \in 1..(Len(mgr[m].waits) - 1) :
              mgr[m].waits[j + 1] = mgr[m].waits[j] + RoundHalf(mgr[m].waits[j])

\* C5: with verification disabled and every engine call succeeding, start()
\* opens no database connection, does not sleep, does not invoke stop, and
\* returns the connection parameters rather than null.
C5_DisabledVerificationSucceeds ==
  \A m \in DOMAIN mgr :
    (Settled(m, "start") /\ ~cfg.verifyDbConnection /\ cfg.failCall = "none"
       /\ mgr[m].verifyCaller = "start")
      => /\ mgr[m].attempts = 0
         /\ mgr[m].waits = <<>>
         /\ mgr[m].stops = 0
         /\ mgr[m].result.kind = "params"

C7_RestartMissingDelegatesToStart ==
  \A m \in DOMAIN mgr :
    (Settled(m, "restart") /\ mgr[m].pre.container = "absent"
       /\ cfg.failCall = "none")
      => /\ mgr[m].result.kind \in {"params", "null"}
         /\ Count(mgr[m].calls, "createContainer") = 1
         /\ Count(mgr[m].calls, "start") = 1
         /\ mgr[m].verifyCaller = "start"

\* C8: restart() with the container present issues one engine restart call and
\* re-runs verification; it returns the connection parameters when an attempt
\* succeeds, and null, without throwing, when all 10 attempts fail.
C8_RestartExisting ==
  \A m \in DOMAIN mgr :
    (Settled(m, "restart") /\ mgr[m].pre.container # "absent"
       /\ cfg.failCall = "none")
      => /\ Count(mgr[m].calls, "restart") = 1
         /\ mgr[m].verifyCaller = "restart"
         /\ (mgr[m].okAt > 0 => mgr[m].result.kind = "params")
         /\ (Exhausted(m) => mgr[m].result.kind = "null")

\* C9: a second start() right after a successful first one, with no engine
\* fault and a database that answers, succeeds again: the container is
\* running, the container and the network are reused rather than created,
\* and the connection parameters are those of the first call.
C9_StartTwice ==
  \A m \in DOMAIN mgr :
    (/\ Settled(m, "start")
     /\ cfg.failCall = "none"
     /\ Len(mgr[m].history) = 1
     /\ mgr[m].history[1].op = "start"
     /\ mgr[m].history[1].result.kind = "params"
     /\ mgr[m].history[1].container = "running"
     /\ (mgr[m].attempts = 0 \/ mgr[m].okAt > 0))
      => /\ mgr[m].result.kind = "params"
         /\ mgr[m].result.params = mgr[m].history[1].result.params
         /\ container = "running"
         /\ Count(mgr[m].calls, "createContainer") = 0
         /\ Count(mgr[m].calls, "createNetwork") = 0

\* C10: start() rejects only when network creation or container creation
\* failed; any other failure yields a null result.  (Stated for an engine
\* client that accepts a redundant start, so that no rejection counted here
\* rests on how the client reports 304.)
C10_OnlyCreationFailuresSurface ==
  \A m \in DOMAIN mgr :
    (Settled(m, "start") /\ mgr[m].result.kind = "threw"
       /\ ~cfg.notModifiedIsError)
      => /\ mgr[m].attempts = 0
         /\ mgr[m].calls # <<>>
         /\ mgr[m].calls[Len(mgr[m].calls)] \in {"createNetwork", "createContainer"}

\* C11: the connection parameters are a function of the configuration alone:
\* with an external container id configured, by option or by environment,
\* host is the container name and port the internal port "3306", otherwise
\* host is 127.0.0.1 and port the configured external port, with the
\* configured credentials; a successful start() or restart() returns the
\* object getDbConnectionParameters() returns, and that call issues no engine
\* call, makes no database attempt and leaves the engine as it was.
C11_ConnectionParameters ==
  \A m \in DOMAIN mgr :
    LET s == mgr[m]
        external == cfg.envItContainer # "" \/ cfg.optCurrentContainerId # ""
        expected == [host |-> IF external THEN "node-it-container-qwerty12345"
                                          ELSE "127.0.0.1",
                     port |-> IF external THEN "3306" ELSE "3806",
                     user |-> "ituser", password |-> "ituser",
                     database |-> "nursebuddy"]
    IN /\ (s.pc = "done" /\ s.result.kind = "params")
            => s.result.params = expected
       /\ \A j \in 1..Len(s.history) :
            s.history[j].result.kind = "params"
              => s.history[j].result.params = expected
       /\ Settled(m, "getDbConnectionParameters")
            => /\ s.result.kind = "params"
               /\ s.calls = <<>>
               /\ s.attempts = 0
               /\ s.pre = [container |-> container, networks |-> networks]
               /\ s.preExtAttached = extAttached

\* C11 witness: with the external container given by the environment only,
\* getDbConnectionParameters() settles right after a successful start() with
\* the object that start() returned, host being the container name.
C11_Witness ==
  \E m \in DOMAIN mgr :
    /\ Settled(m, "getDbConnectionParameters")
    /\ cfg.envItContainer # "" /\ cfg.optCurrentContainerId = ""
    /\ Len(mgr[m].history) = 1
    /\ mgr[m].history[1].op = "start"
    /\ mgr[m].history[1].result.kind = "params"
    /\ mgr[m].history[1].result.params = mgr[m].result.params
    /\ mgr[m].result.params.host = itContainerName
    /\ mgr[m].result.params.port = MYSQL_DEFAULT_PORT

\* C12: stop() invoked when no container with the configured name exists
\* leaves the engine as it was: container.stop() is the only engine call, it is
\* rejected, and the network and the external attachment are not touched.
C12_StopWithoutContainerIsNoOp ==
  \A m \in DOMAIN mgr :
    (Settled(m, "stop") /\ mgr[m].pre.container = "absent")
      => /\ container = "absent"
         /\ networks = mgr[m].pre.networks
         /\ extAttached = mgr[m].preExtAttached
         /\ mgr[m].calls = <<"stop">>
         /\ mgr[m].result.kind = "undefined"

\* C12 witness: stop() has settled on an engine that holds the network but no
\* container, and the network is still there.
C12_Witness ==
  \E m \in DOMAIN mgr :
    /\ Settled(m, "stop")
    /\ mgr[m].pre = [container |-> "absent", networks |-> 1]
    /\ networks = 1
    /\ mgr[m].calls = <<"stop">>

\* Position of an engine call in the order start() issues its steps.
StartRank(call) ==
  CASE call = "listNetworks" -> 1
    [] call = "createNetwork" -> 2
    [] call = "inspect" -> 3
    [] call = "createContainer" -> 4
    [] call = "start" -> 5
    [] call = "connect" -> 6
    [] OTHER -> 0

C14_StopTearsDown ==
  \A m \in DOMAIN mgr :
    (Settled(m, "stop") /\ mgr[m].pre.container # "absent" /\ cfg.failCall = "none")
      => /\ mgr[m].calls = IF HasCurrentContainer
                             THEN <<"stop", "remove", "disconnect", "removeNetwork">>
                             ELSE <<"stop", "remove", "removeNetwork">>
         /\ container = "absent"
         /\ networks = 0
         /\ ~extAttached

\* C15: within one start() the network is created only if the listing did not
\* yield it and the container only if the lookup by name failed, each at most
\* once; a network or container that was found is reused.
C15_LookupBeforeCreate ==
  \A m \in DOMAIN mgr :
    LET s == mgr[m] IN
    s.op = "start" =>
      /\ Count(s.calls, "createNetwork") <= 1
      /\ Count(s.calls, "createContainer") <= 1
      /\ Count(s.calls, "createNetwork") = 1
           => /\ Count(s.calls, "listNetworks") = 1
              /\ s.pre.networks = 0 \/ ListFails
      /\ Count(s.calls, "createContainer") = 1
           => /\ Count(s.calls, "inspect") = 1
              /\ s.pre.container = "absent" \/ Faulty("inspect")
      /\ Count(s.calls, "createNetwork") = 0 => networks = s.pre.networks
      /\ Count(s.calls, "createContainer") = 0
           => (container = "absent" <=> s.pre.container = "absent")

\* C15 witness: a start() that found the network and the container has
\* succeeded without a create call, on the same network.
C15_Witness ==
  \E m \in DOMAIN mgr :
    /\ Settled(m, "start")
    /\ mgr[m].pre = [container |-> "stopped", networks |-> 1]
    /\ mgr[m].calls = <<"listNetworks", "inspect", "start">>
    /\ mgr[m].result.kind = "params"
    /\ networks = 1 /\ container = "running"

\* C16: when listing the networks fails, start() goes on to create the
\* network; if the network exists, the creation is rejected, start() rejects,
\* and the invocation neither looks up, creates or starts a container nor
\* attempts a database connection.
C16_ListFailureThenCreate ==
  \A m \in DOMAIN mgr :
    LET s == mgr[m] IN
    (s.op = "start" /\ cfg.failCall = "listNetworks") =>
      /\ Len(s.calls) >= 1 => s.pc # "inspect" \/ Len(s.calls) >= 2
      /\ Len(s.calls) >= 2 => s.calls[2] = "createNetwork"
      /\ (s.pc = "done" /\ s.pre.networks > 0)
           => /\ s.result.kind = "threw"
              /\ s.calls = <<"listNetworks", "createNetwork">>
              /\ s.attempts = 0
              /\ s.verifyCaller = "none"
              /\ container = s.pre.container
              /\ networks = s.pre.networks

\* C16 witness: start() has rejected on the network's name conflict after a
\* failed listing, with the stopped container left as it was.
C16_Witness ==
  \E m \in DOMAIN mgr :
    /\ Settled(m, "start")
    /\ cfg.failCall = "listNetworks"
    /\ mgr[m].pre = [container |-> "stopped", networks |-> 1]
    /\ mgr[m].calls = <<"listNetworks", "createNetwork">>
    /\ mgr[m].result.kind = "threw"
    /\ container = "stopped"

\* C17: with a single manager, whatever sequence of start(), stop() and
\* restart() has run, the engine holds at most one network of the configured
\* name and the one container of that name or none, now and at every return.
C17_AtMostOneOfEach ==
  /\ networks \in {0, 1}
  /\ container \in {"absent", "stopped", "running"}
  /\ \A m \in DOMAIN mgr :
       \A j \in 1..Len(mgr[m].history) : mgr[m].history[j].networks \in {0, 1}

\* C17 witness: two start() calls have completed with the listing failing
\* both times; the second create was refused and one network exists.
C17_Witness ==
  \E m \in DOMAIN mgr :
    /\ Len(mgr[m].history) = 2
    /\ mgr[m].history[1].op = "start" /\ mgr[m].history[2].op = "start"
    /\ mgr[m].history[1].result.kind = "params"
    /\ mgr[m].history[2].result.kind = "threw"
    /\ cfg.failCall = "listNetworks"
    /\ mgr[m].history[1].pre.networks = 0
    /\ networks = 1 /\ container = "running"

C18_ConcurrentStartsConflict ==
  \A m1, m2 \in DOMAIN mgr :
    LET failedAt(m, call) ==
          /\ mgr[m].result.kind = "threw"
          /\ mgr[m].calls[Len(mgr[m].calls)] = call
        both(call) ==
          /\ m1 # m2
          /\ mgr[m1].op = "start" /\ mgr[m2].op = "start"
          /\ Count(mgr[m1].calls, call) = 1 /\ Count(mgr[m2].calls, call) = 1
    IN /\ both("createNetwork")
            => \/ failedAt(m1, "createNetwork") \/ failedAt(m2, "createNetwork")
               \/ networks >= 2
       /\ both("createContainer")
            => failedAt(m1, "createContainer") \/ failedAt(m2, "createContainer")

\* C18 witness: both managers listed the networks of an empty engine, both
\* issued createNetwork, and the second start() has failed on the conflict.
C18_Witness ==
  \E m1, m2 \in DOMAIN mgr :
    /\ m1 # m2
    /\ mgr[m1].op = "start" /\ mgr[m2].op = "start"
    /\ mgr[m1].pre.networks = 0 /\ mgr[m2].pre.networks = 0
    /\ Len(mgr[m1].calls) >= 2
    /\ mgr[m1].calls[1] = "listNetworks" /\ mgr[m1].calls[2] = "createNetwork"
    /\ mgr[m1].network
    /\ mgr[m2].calls = <<"listNetworks", "createNetwork">>
    /\ Settled(m2, "start") /\ mgr[m2].result.kind = "threw"
    /\ networks = 1

\* C20: every start(), restart() and stop() that was invoked settles, given
\* that every pending engine call, database call and sleep returns, and no
\* invocation makes more than 10 database attempts.
C20_Terminates ==
  \A m \in Managers :
    /\ [](m \in DOMAIN mgr => mgr[m].attempts <= 10)
    /\ (m \in DOMAIN mgr /\ mgr[m].op \in {"start", "restart", "stop"})
         ~> (m \in DOMAIN mgr /\ mgr[m].pc = "done")

\* C20 witness: a start() has settled after the tenth attempt failed.
C20_Witness ==
  \E m \in DOMAIN mgr :
    /\ Settled(m, "start")
    /\ mgr[m].attempts = 10
    /\ mgr[m].okAt = 0
    /\ Len(mgr[m].waits) = 10

====
